---- MODULE Spec2Model ----
(***************************************************************************)
(* Model of chochocranci.py: a personal finance ledger kept in data.json.  *)
(*                                                                         *)
(* Python strings are sequences of one-character strings, so that strip,   *)
(* upper, float, isoformat and fromisoformat are computed character by     *)
(* character.  The backing file is the sequence of JSON tokens json.dump   *)
(* writes (separators and indentation elided); json.load is a recursive    *)
(* descent over those tokens.  A Python dict is a function from key names  *)
(* to values, a list a sequence.                                           *)
(*                                                                         *)
(* Line 60 of the source reads "except Exception:6"; the stray 6 is taken  *)
(* as a typing slip and the handler modelled as "except Exception:".       *)
(***************************************************************************)
EXTENDS Integers, Sequences, FiniteSets, TLC

VARIABLES fileExists, fileBytes, clock, last, hist

vars == <<fileExists, fileBytes, clock, last, hist>>

----------------------------------------------------------------------------
(* Bounds of the model *)

\* Appends are taken while the stored ledger holds fewer entries than this.
MaxTx == 2

\* The longest ledger the summaries are computed of
MaxLen == 3

\* A failed write stops after this many tokens or fewer
MaxCut == 1

----------------------------------------------------------------------------
(* Strings *)

Digits == <<"0", "1", "2", "3", "4", "5", "6", "7", "8", "9">>

IsDigit(c) == \E i \in 1..10 : Digits[i] = c

DigitVal(c) == (CHOOSE i \in 1..10 : Digits[i] = c) - 1

RECURSIVE AllDigits(_)
AllDigits(s) == s = <<>> \/ (IsDigit(Head(s)) /\ AllDigits(Tail(s)))

\* int(s) for a string of decimal digits
RECURSIVE DecVal(_)
DecVal(s) == IF s = <<>> THEN 0 ELSE 10 * DecVal(SubSeq(s, 1, Len(s) - 1)) + DigitVal(s[Len(s)])

\* '{:0Nd}'.format(n)
RECURSIVE Pad(_, _)
Pad(n, width) == IF width = 0 THEN <<>> ELSE Pad(n \div 10, width - 1) \o <<Digits[(n % 10) + 1]>>

\* str.strip(): leading and trailing blanks removed
RECURSIVE LStrip(_)
LStrip(s) == IF s # <<>> /\ Head(s) = " " THEN LStrip(Tail(s)) ELSE s

RECURSIVE RStrip(_)
RStrip(s) == IF s # <<>> /\ s[Len(s)] = " " THEN RStrip(SubSeq(s, 1, Len(s) - 1)) ELSE s

Strip(s) == RStrip(LStrip(s))

UpperChar(c) ==
    CASE c = "y" -> "Y"
      [] c = "a" -> "A"
      [] c = "b" -> "B"
      [] c = "c" -> "C"
      [] OTHER -> c

\* str.upper()
Upper(s) == [i \in 1..Len(s) |-> UpperChar(s[i])]

\* float(x) for a string: blanks stripped, an optional sign, decimal digits.
\* ok = FALSE is ValueError.  Fractions, exponents, inf and nan are not among
\* the inputs of the model.
ParseFloat(s) ==
    LET t == Strip(s)
        neg == t # <<>> /\ Head(t) = "-"
        body == IF t # <<>> /\ Head(t) \in {"-", "+"} THEN Tail(t) ELSE t
    IN  IF body # <<>> /\ AllDigits(body)
        THEN [ok |-> TRUE, val |-> IF neg THEN 0 - DecVal(body) ELSE DecVal(body)]
        ELSE [ok |-> FALSE, val |-> 0]

----------------------------------------------------------------------------
(* Dates *)

IsLeap(y) == (y % 4 = 0 /\ y % 100 # 0) \/ y % 400 = 0

DaysInMonth(y, m) ==
    IF m = 2 THEN (IF IsLeap(y) THEN 29 ELSE 28)
    ELSE IF m \in {4, 6, 9, 11} THEN 30 ELSE 31

\* date.isoformat()
DateIso(d) == Pad(d.year, 4) \o <<"-">> \o Pad(d.month, 2) \o <<"-">> \o Pad(d.day, 2)

\* datetime.isoformat(): the fraction is written only when microsecond # 0
DateTimeIso(t) ==
    DateIso(t) \o <<"T">> \o Pad(t.hour, 2) \o <<":">> \o Pad(t.minute, 2)
        \o <<":">> \o Pad(t.second, 2)
        \o (IF t.microsecond = 0 THEN <<>> ELSE <<".">> \o Pad(t.microsecond, 6))

\* datetime.date()
DateOf(t) == [year |-> t.year, month |-> t.month, day |-> t.day]

NoDate == [ok |-> FALSE, year |-> 0, month |-> 0, day |-> 0]

\* The time part of datetime.fromisoformat: HH[:MM[:SS[.fff[fff]]]]
TimePartOk(s) ==
    LET n == Len(s)
        two(i) == IF AllDigits(SubSeq(s, i, i + 1)) THEN DecVal(SubSeq(s, i, i + 1)) ELSE 99
    IN  /\ n \in {2, 5, 8, 12, 15}
        /\ two(1) < 24
        /\ n >= 5 => (s[3] = ":" /\ two(4) < 60)
        /\ n >= 8 => (s[6] = ":" /\ two(7) < 60)
        /\ n >= 12 => (s[9] = "." /\ AllDigits(SubSeq(s, 10, n)))

\* datetime.fromisoformat(s).date(); ok = FALSE is the exception it raises
FromIso(s) ==
    LET n == Len(s)
        y == DecVal(SubSeq(s, 1, 4))
        m == DecVal(SubSeq(s, 6, 7))
        d == DecVal(SubSeq(s, 9, 10))
    IN  IF /\ n >= 10
           /\ AllDigits(SubSeq(s, 1, 4)) /\ s[5] = "-"
           /\ AllDigits(SubSeq(s, 6, 7)) /\ s[8] = "-"
           /\ AllDigits(SubSeq(s, 9, 10))
           /\ y >= 1 /\ m \in 1..12 /\ d >= 1 /\ d <= DaysInMonth(y, m)
           /\ n # 11
           /\ n > 11 => TimePartOk(SubSeq(s, 12, n))
        THEN [ok |-> TRUE, year |-> y, month |-> m, day |-> d]
        ELSE NoDate

----------------------------------------------------------------------------
(* JSON *)

P(c) == [k |-> "punct", c |-> c]
K(name) == [k |-> "key", name |-> name]
Sv(s) == [k |-> "str", s |-> s]
Nv(n) == [k |-> "num", n |-> n]

\* The keys add_transaction writes, in the order of the dict literal
FieldOrder == <<"type", "amount", "category", "note", "date", "created_at">>

RECURSIVE DumpFields(_, _)
DumpFields(t, i) ==
    IF i > Len(FieldOrder) THEN <<>>
    ELSE LET f == FieldOrder[i]
         IN  (IF f \in DOMAIN t
              THEN <<K(f), IF f = "amount" THEN Nv(t[f]) ELSE Sv(t[f])>>
              ELSE <<>>) \o DumpFields(t, i + 1)

DumpTx(t) == <<P("{")>> \o DumpFields(t, 1) \o <<P("}")>>

RECURSIVE DumpList(_)
DumpList(txs) == IF txs = <<>> THEN <<>> ELSE DumpTx(Head(txs)) \o DumpList(Tail(txs))

\* json.dump(data): the tokens of the document
json_dump(data) ==
    <<P("{")>>
        \o (IF "transactions" \in DOMAIN data
            THEN <<K("transactions"), P("[")>> \o DumpList(data.transactions) \o <<P("]")>>
            ELSE <<>>)
        \o <<P("}")>>

ParseFail == [ok |-> FALSE, val |-> <<>>, next |-> 0]

RECURSIVE ParseValue(_, _), ParseMembers(_, _, _), ParseElems(_, _, _)

ParseValue(toks, i) ==
    IF i > Len(toks) THEN ParseFail
    ELSE LET t == toks[i]
         IN  CASE t.k = "str" -> [ok |-> TRUE, val |-> t.s, next |-> i + 1]
               [] t.k = "num" -> [ok |-> TRUE, val |-> t.n, next |-> i + 1]
               [] t.k = "punct" /\ t.c = "{" -> ParseMembers(toks, i + 1, <<>>)
               [] t.k = "punct" /\ t.c = "[" -> ParseElems(toks, i + 1, <<>>)
               [] OTHER -> ParseFail

ParseMembers(toks, i, acc) ==
    IF i > Len(toks) THEN ParseFail
    ELSE LET t == toks[i]
         IN  IF t.k = "punct" /\ t.c = "}" THEN [ok |-> TRUE, val |-> acc, next |-> i + 1]
             ELSE IF t.k = "key"
             THEN LET v == ParseValue(toks, i + 1)
                  IN  IF v.ok THEN ParseMembers(toks, v.next, (t.name :> v.val) @@ acc)
                      ELSE ParseFail
             ELSE ParseFail

ParseElems(toks, i, acc) ==
    IF i > Len(toks) THEN ParseFail
    ELSE LET t == toks[i]
         IN  IF t.k = "punct" /\ t.c = "]" THEN [ok |-> TRUE, val |-> acc, next |-> i + 1]
             ELSE LET v == ParseValue(toks, i)
                  IN  IF v.ok THEN ParseElems(toks, v.next, Append(acc, v.val))
                      ELSE ParseFail

\* json.load(f): ok = FALSE is the JSONDecodeError (also raised for trailing data)
json_load(toks) ==
    LET r == ParseValue(toks, 1)
    IN  IF r.ok /\ r.next = Len(toks) + 1 THEN [ok |-> TRUE, val |-> r.val]
        ELSE [ok |-> FALSE, val |-> <<>>]

----------------------------------------------------------------------------
(* The store *)

EmptyLedger == [transactions |-> <<>>]

\* A slip of lines 23-24: the warning is printed for a missing file too
load_dataWarnMissing(ex, bytes) ==
    LET r == json_load(bytes)
    IN  IF ex /\ r.ok THEN [data |-> r.val, warned |-> FALSE]
        ELSE [data |-> [transactions |-> <<>>], warned |-> TRUE]

\* load_data(): the document of the backing file, or {"transactions": []} when
\* the file is missing or does not parse; warned is the printed warning.
load_data(ex, bytes) ==
    IF ~ex THEN [data |-> EmptyLedger, warned |-> FALSE]
    ELSE LET r == json_load(bytes)
         IN  IF r.ok THEN [data |-> r.val, warned |-> FALSE]
             ELSE [data |-> EmptyLedger, warned |-> TRUE]

\* What becomes of a write: it completes, open() fails, or the write stops
\* after cut tokens have reached the file.
WriteOk == [kind |-> "ok", cut |-> 0]

\* save_data(data): open(DATA_FILE, 'w') truncates the file, json.dump then
\* writes the document.  raised = "OSError" is the error of a failed write.
save_data(data, outcome, ex, bytes) ==
    LET toks == json_dump(data)
    IN  CASE outcome.kind = "ok" ->
               [exists |-> TRUE, bytes |-> toks, raised |-> "none"]
          [] outcome.kind = "open" ->
               [exists |-> ex, bytes |-> bytes, raised |-> "OSError"]
          [] OTHER ->
               [exists |-> TRUE, bytes |-> SubSeq(toks, 1, outcome.cut), raised |-> "OSError"]

INCOME == <<"i", "n", "c", "o", "m", "e">>
EXPENSE == <<"e", "x", "p", "e", "n", "s", "e">>

\* float(amount): a number is kept, a string is parsed
Float(amount) == IF amount.isStr THEN ParseFloat(amount.s) ELSE [ok |-> TRUE, val |-> amount.n]

NoTxn == <<>>

\* A slip of line 50: the entry is put in front of the list
PrependTxn(data, txn) == [data EXCEPT !.transactions = <<txn>> \o @]

\* data['transactions'].append(txn)
AppendTxn(data, txn) == [data EXCEPT !.transactions = Append(@, txn)]

\* add_transaction(tx_type, amount, category, note, tx_date): today is what
\* date.today() returns at line 41, now what datetime.now() returns at line 48.
add_transaction(tx_type, amount, category, note, tx_date, today, now, outcome, ex, bytes) ==
    LET ld == load_data(ex, bytes)
        data == ld.data
        date_ == IF tx_date.given THEN tx_date.s ELSE DateIso(today)
        f == Float(amount)
        txn == [type |-> tx_type, amount |-> f.val, category |-> category, note |-> note,
                date |-> date_, created_at |-> DateTimeIso(now)]
        unchanged(err) == [exists |-> ex, bytes |-> bytes, raised |-> err,
                           warned |-> ld.warned, txn |-> NoTxn]
    IN  IF ~f.ok THEN unchanged("ValueError")
        ELSE IF "transactions" \notin DOMAIN data THEN unchanged("KeyError")
        ELSE LET sv == save_data(AppendTxn(data, txn), outcome, ex, bytes)
             IN  [exists |-> sv.exists, bytes |-> sv.bytes, raised |-> sv.raised,
                  warned |-> ld.warned, txn |-> txn]

----------------------------------------------------------------------------
(* The monthly summary *)

\* A slip of lines 60-64: no fall back to created_at
LoopDateNoFallback(t) == IF "date" \in DOMAIN t THEN FromIso(t.date) ELSE NoDate

\* The date the loop of get_month_transactions resolves for t: t['date'], and
\* when that raises, t.get('created_at'); ok = FALSE is the "continue".
LoopDate(t) ==
    LET d1 == IF "date" \in DOMAIN t THEN FromIso(t.date) ELSE NoDate
    IN  IF d1.ok THEN d1
        ELSE IF "created_at" \in DOMAIN t THEN FromIso(t.created_at) ELSE NoDate

RECURSIVE MonthLoop(_, _, _)
MonthLoop(txs, year, month) ==
    IF txs = <<>> THEN <<>>
    ELSE LET t == Head(txs)
             d == LoopDate(t)
         IN  (IF d.ok /\ d.year = year /\ d.month = month THEN <<t>> ELSE <<>>)
                 \o MonthLoop(Tail(txs), year, month)

\* get_month_transactions(year, month)
get_month_transactions(year, month, ex, bytes) ==
    LET ld == load_data(ex, bytes)
    IN  IF "transactions" \notin DOMAIN ld.data
        THEN [raised |-> "KeyError", warned |-> ld.warned, txs |-> <<>>]
        ELSE [raised |-> "none", warned |-> ld.warned,
              txs |-> MonthLoop(ld.data.transactions, year, month)]

\* sum(t['amount'] for t in txs if t['type'] == kind)
RECURSIVE SumOf(_, _)
SumOf(txs, kind) ==
    IF txs = <<>> THEN 0
    ELSE (IF Head(txs).type = kind THEN Head(txs).amount ELSE 0) + SumOf(Tail(txs), kind)

\* Whether one of the two generator expressions raises KeyError
SumRaises(txs) ==
    \E i \in 1..Len(txs) :
        \/ "type" \notin DOMAIN txs[i]
        \/ (txs[i].type \in {INCOME, EXPENSE} /\ "amount" \notin DOMAIN txs[i])

NoSummary == [income |-> 0, expense |-> 0, balance |-> 0, count |-> 0]

\* A slip of line 74: the totals are added
BalancePlus(total_income, total_expense) == total_income + total_expense

Balance(total_income, total_expense) == total_income - total_expense

\* A slip of line 79: only the income entries are counted
CountIncome(txs) == Cardinality({i \in 1..Len(txs) : txs[i].type = INCOME})

Count(txs) == Len(txs)

\* summarize_month(year, month)
summarize_month(year, month, ex, bytes) ==
    LET g == get_month_transactions(year, month, ex, bytes)
        txs == g.txs
    IN  IF g.raised # "none" THEN [raised |-> g.raised, warned |-> g.warned, sum |-> NoSummary]
        ELSE IF SumRaises(txs) THEN [raised |-> "KeyError", warned |-> g.warned, sum |-> NoSummary]
        ELSE LET total_income == SumOf(txs, INCOME)
                 total_expense == SumOf(txs, EXPENSE)
             IN  [raised |-> "none", warned |-> g.warned,
                  sum |-> [income |-> total_income, expense |-> total_expense,
                           balance |-> Balance(total_income, total_expense),
                           count |-> Count(txs)]]

----------------------------------------------------------------------------
(* The environment: the clock, the callers' arguments, the user's input *)

\* The instants the clock passes through: the last half second of February
\* 2024 and the midnight after it.
Instants ==
    << [year |-> 2024, month |-> 2, day |-> 29, hour |-> 23, minute |-> 59, second |-> 59,
        microsecond |-> 500000],
       [year |-> 2024, month |-> 3, day |-> 1, hour |-> 0, minute |-> 0, second |-> 0,
        microsecond |-> 0] >>

\* A later read of the clock returns the same instant or the next one.
LaterReads(i) == {j \in {i, i + 1} : j <= Len(Instants)}

Num(n) == [isStr |-> FALSE, s |-> <<>>, n |-> n]
Str(s) == [isStr |-> TRUE, s |-> s, n |-> 0]
Given(s) == [given |-> TRUE, s |-> s]
None == [given |-> FALSE, s |-> <<>>]

Day(y, m, d) == DateIso([year |-> y, month |-> m, day |-> d])

Sewa == <<"S", "e", "w", "a">>

\* Calls of add_transaction with a date of the caller's, as demo_run makes
\* them; tx_type is 'income' or 'expense' (line 43)
ApiCalls ==
    { [tx_type |-> EXPENSE, amount |-> Num(20000), category |-> Sewa, note |-> <<>>,
       tx_date |-> Given(Day(2024, 2, 15))] }

ChoiceInputs == { <<"1">>, <<" ", "2">>, <<"3">>, <<"4">>, <<"5", " ">>, <<"0">>, <<"9">> }
AmtInputs == { <<" ", "1", "5">>, <<"-", "5">>, <<"a", "b", "c">> }
TextInputs == { <<>> }
ConfirmInputs == { <<"Y", "A">>, <<" ", "y", "a", " ">>, <<"y">>, <<"Y", "A", "A">> }

Months == { <<2024, 3>>, <<2024, 5>> }

\* Entries found in data.json
StoredTx(type, amount, category, date, created_at) ==
    [type |-> type, amount |-> amount, category |-> category, note |-> <<>>,
     date |-> date, created_at |-> created_at]

Noon == DateTimeIso([year |-> 2024, month |-> 3, day |-> 5, hour |-> 12, minute |-> 0,
                     second |-> 0, microsecond |-> 0])

GajiTx == StoredTx(INCOME, 5000000, <<"G", "a", "j", "i">>, Day(2024, 3, 1), Noon)
SewaTx == StoredTx(EXPENSE, 1500000, Sewa, Day(2024, 3, 2), Noon)
MakanTx == StoredTx(EXPENSE, 300000, <<"M", "a", "k", "a", "n">>, Day(2024, 3, 5), Noon)
Feb15Tx == StoredTx(EXPENSE, 20000, <<>>, Day(2024, 2, 15), Noon)
NoDateTx ==
    [type |-> INCOME, amount |-> 7, category |-> <<>>, note |-> <<>>,
     created_at |-> DateTimeIso([year |-> 2024, month |-> 5, day |-> 10, hour |-> 10,
                                 minute |-> 0, second |-> 0, microsecond |-> 0])]
BadDatesTx ==
    StoredTx(EXPENSE, 9, <<>>, <<"2", "0", "2", "4", "-", "1", "3", "-", "0", "1">>,
             <<"b", "a", "d">>)
BadDateTx == StoredTx(INCOME, 4, <<>>, <<"1", "/", "3", "/", "2", "0", "2", "4">>, Noon)
NoTypeTx == [amount |-> 3, date |-> Day(2024, 3, 1)]
NoAmountTx == [type |-> EXPENSE, date |-> Day(2024, 3, 1)]
OtherKindTx == [type |-> <<"t", "r", "a", "n", "s", "f", "e", "r">>, amount |-> 2,
                date |-> Day(2024, 3, 1)]

\* Documents found in data.json when the program starts
InitialFiles ==
    { <<>>,                                    \* an empty file
      <<P("{"), K("transactions"), P("[")>>,   \* a document cut short
      json_dump(<<>>),                         \* {}
      json_dump([transactions |-> <<NoDateTx, BadDatesTx>>]),
      json_dump([transactions |-> <<NoTypeTx>>]),
      json_dump([transactions |-> <<NoAmountTx>>]),
      json_dump([transactions |-> <<OtherKindTx>>]) }

\* The entries the summaries are computed of
AggUniverse == {GajiTx, SewaTx, MakanTx, Feb15Tx, NoDateTx, BadDatesTx, BadDateTx}

Ledgers == UNION {[1..k -> AggUniverse] : k \in 0..MaxLen}

\* The entries load_data finds in the file (none without a list of them)
Stored(ex, bytes) ==
    LET d == load_data(ex, bytes).data
    IN  IF "transactions" \in DOMAIN d THEN d.transactions ELSE <<>>

----------------------------------------------------------------------------
(* State *)

NoLast ==
    [op |-> "none", raised |-> "none", warned |-> FALSE, fault |-> "ok", arg |-> <<>>,
     noDate |-> FALSE, txn |-> NoTxn, data |-> <<>>, txs |-> <<>>, sum |-> NoSummary,
     ym |-> <<0, 0>>]

\* The program starts with data.json missing or holding one of InitialFiles.
Init ==
    /\ \/ fileExists = FALSE /\ fileBytes = <<>>
       \/ fileExists = TRUE /\ fileBytes \in InitialFiles
    /\ clock = 1
    /\ last = NoLast
    /\ hist = [valid |-> ~fileExists, txs |-> <<>>]

\* hist.txs: the entries appended since the last clear, while hist.valid (the
\* run started without a file or has cleared it, and no write was cut short)
HistAfterAdd(r, outcome) ==
    IF r.raised = "none" /\ hist.valid THEN [hist EXCEPT !.txs = Append(@, r.txn)]
    ELSE IF r.raised = "OSError" /\ outcome.kind # "open" THEN [valid |-> FALSE, txs |-> <<>>]
    ELSE hist

Room == Len(Stored(fileExists, fileBytes)) < MaxTx

----------------------------------------------------------------------------
(* The operations of the core, called as demo_run calls them *)

\* One run of add_transaction under the arguments c; the clock is read at
\* line 41 (today) and again at line 48 (now).
DoAdd(op, c, arg, now, outcome) ==
    LET r == add_transaction(c.tx_type, c.amount, c.category, c.note, c.tx_date,
                             DateOf(Instants[clock]), Instants[now], outcome,
                             fileExists, fileBytes)
    IN  /\ fileExists' = r.exists
        /\ fileBytes' = r.bytes
        /\ clock' = now
        /\ hist' = HistAfterAdd(r, outcome)
        /\ last' = [NoLast EXCEPT !.op = op, !.raised = r.raised, !.warned = r.warned,
                                  !.fault = outcome.kind, !.arg = arg,
                                  !.noDate = ~c.tx_date.given, !.txn = r.txn]

\* add_transaction(tx_type, amount, category, note, tx_date)
Append_(outcomes) ==
    /\ Room
    /\ \E c \in ApiCalls, now \in LaterReads(clock), outcome \in outcomes :
           DoAdd("append", c, <<>>, now, outcome)

\* load_data()
Load ==
    LET ld == load_data(fileExists, fileBytes)
    IN  /\ last' = [NoLast EXCEPT !.op = "load", !.warned = ld.warned, !.data = ld.data]
        /\ UNCHANGED <<fileExists, fileBytes, clock, hist>>

\* get_month_transactions(year, month)
MonthTransactions ==
    \E ym \in Months :
        LET g == get_month_transactions(ym[1], ym[2], fileExists, fileBytes)
        IN  /\ last' = [NoLast EXCEPT !.op = "month", !.raised = g.raised,
                                      !.warned = g.warned, !.txs = g.txs, !.ym = ym]
            /\ UNCHANGED <<fileExists, fileBytes, clock, hist>>

\* summarize_month(year, month)
Summarize ==
    \E ym \in Months :
        LET r == summarize_month(ym[1], ym[2], fileExists, fileBytes)
        IN  /\ last' = [NoLast EXCEPT !.op = "summarize", !.raised = r.raised,
                                      !.warned = r.warned, !.sum = r.sum, !.ym = ym]
            /\ UNCHANGED <<fileExists, fileBytes, clock, hist>>

----------------------------------------------------------------------------
(* interactive_menu: one action per branch of the loop body *)

\* choice = input('Pilih angka: ').strip()
Chosen(key) == \E choice \in ChoiceInputs : Strip(choice) = key

MenuAdd(op, key, tx_type, outcomes) ==
    /\ Chosen(key)
    /\ \E raw \in AmtInputs :
           LET amt == Strip(raw)
           IN  IF ~ParseFloat(amt).ok
               THEN \* 'Jumlah tidak valid': continue
                    /\ last' = [NoLast EXCEPT !.op = op, !.arg = raw, !.raised = "invalid"]
                    /\ UNCHANGED <<fileExists, fileBytes, clock, hist>>
               ELSE /\ Room
                    /\ \E cat \in TextInputs, note \in TextInputs, now \in LaterReads(clock),
                          outcome \in outcomes :
                           DoAdd(op, [tx_type |-> tx_type, amount |-> Str(amt),
                                      category |-> Strip(cat), note |-> Strip(note),
                                      tx_date |-> None], raw, now, outcome)

\* choice == '1'
MenuAddIncome(outcomes) == MenuAdd("menu1", <<"1">>, INCOME, outcomes)

\* choice == '2'
MenuAddExpense(outcomes) == MenuAdd("menu2", <<"2">>, EXPENSE, outcomes)

\* choice == '3': print_summary(today.year, today.month)
MenuSummary ==
    /\ Chosen(<<"3">>)
    /\ LET today == DateOf(Instants[clock])
           r == summarize_month(today.year, today.month, fileExists, fileBytes)
       IN  last' = [NoLast EXCEPT !.op = "menu3", !.raised = r.raised,
                                  !.warned = r.warned, !.sum = r.sum,
                                  !.ym = <<today.year, today.month>>]
    /\ UNCHANGED <<fileExists, fileBytes, clock, hist>>

\* list_transactions(txs): the f-string reads t['date'], t['type'], t['amount']
ListRaises(txs) == \E i \in 1..Len(txs) : ~({"date", "type", "amount"} \subseteq DOMAIN txs[i])

\* choice == '4': list_transactions(data.get('transactions', []))
MenuList ==
    /\ Chosen(<<"4">>)
    /\ LET ld == load_data(fileExists, fileBytes)
           txs == IF "transactions" \in DOMAIN ld.data THEN ld.data.transactions ELSE <<>>
       IN  last' = [NoLast EXCEPT !.op = "menu4", !.warned = ld.warned, !.txs = txs,
                                  !.raised = IF ListRaises(txs) THEN "KeyError" ELSE "none"]
    /\ UNCHANGED <<fileExists, fileBytes, clock, hist>>

\* A slip of line 140: only the first letter is compared
ConfirmedFirstLetter(confirm) == confirm # <<>> /\ Upper(confirm)[1] = "Y"

\* The test of line 140; confirm is the stripped input
Confirmed(confirm) == Upper(confirm) = <<"Y", "A">>

\* choice == '5': save_data({"transactions": []}) after the confirmation
MenuClear(outcomes) ==
    /\ Chosen(<<"5">>)
    /\ \E raw \in ConfirmInputs :
           IF Confirmed(Strip(raw))
           THEN \E outcome \in outcomes :
                    LET sv == save_data(EmptyLedger, outcome, fileExists, fileBytes)
                    IN  /\ fileExists' = sv.exists
                        /\ fileBytes' = sv.bytes
                        /\ hist' = IF sv.raised = "none" THEN [valid |-> TRUE, txs |-> <<>>]
                                   ELSE IF outcome.kind = "open" THEN hist
                                   ELSE [valid |-> FALSE, txs |-> <<>>]
                        /\ last' = [NoLast EXCEPT !.op = "menu5", !.arg = raw,
                                                  !.raised = sv.raised, !.fault = outcome.kind]
                        /\ UNCHANGED clock
           ELSE \* 'Dibatalkan.'
                /\ last' = [NoLast EXCEPT !.op = "menu5", !.arg = raw]
                /\ UNCHANGED <<fileExists, fileBytes, clock, hist>>

\* choice == '0': break
MenuExit ==
    /\ Chosen(<<"0">>)
    /\ last' = [NoLast EXCEPT !.op = "menu0"]
    /\ UNCHANGED <<fileExists, fileBytes, clock, hist>>

\* else: 'Pilihan tidak dikenal. Coba lagi.'
MenuUnknown ==
    \E choice \in ChoiceInputs :
        /\ Strip(choice) \notin {<<"1">>, <<"2">>, <<"3">>, <<"4">>, <<"5">>, <<"0">>}
        /\ last' = [NoLast EXCEPT !.op = "menu?", !.arg = choice]
        /\ UNCHANGED <<fileExists, fileBytes, clock, hist>>

\* Time passes between two operations
Tick ==
    /\ clock < Len(Instants)
    /\ clock' = clock + 1
    /\ UNCHANGED <<fileExists, fileBytes, last, hist>>

----------------------------------------------------------------------------
(* Specifications *)

\* Every write completes
Reliable == {WriteOk}

\* The program on a file system whose writes complete
Next ==
    \/ Append_(Reliable)
    \/ Load
    \/ Summarize
    \/ MenuAddIncome(Reliable)
    \/ MenuAddExpense(Reliable)
    \/ MenuSummary
    \/ MenuList
    \/ MenuClear(Reliable)
    \/ MenuExit
    \/ MenuUnknown
    \/ Tick

Spec == Init /\ [][Next]_vars

\* A write may also fail: in open(), or after MaxCut or fewer tokens have
\* reached the file (every document has five tokens or more)
Faulty ==
    {WriteOk, [kind |-> "open", cut |-> 0]} \cup {[kind |-> "write", cut |-> k] : k \in 0..MaxCut}

NextFault ==
    \/ Append_(Faulty)
    \/ Load
    \/ MenuAddIncome(Faulty)
    \/ MenuAddExpense(Faulty)
    \/ MenuClear(Faulty)
    \/ Tick

SpecFault == Init /\ [][NextFault]_vars

\* The aggregator as a function of the ledger in the file: the file holds any
\* ledger of Ledgers, recorded in hist.txs, and the two functions are applied.
InitAgg ==
    /\ \E s \in Ledgers :
           /\ fileBytes = json_dump([transactions |-> s])
           /\ hist = [valid |-> TRUE, txs |-> s]
    /\ fileExists = TRUE
    /\ clock = 1
    /\ last = NoLast

NextAgg ==
    \/ MonthTransactions
    \/ Summarize

SpecAgg == InitAgg /\ [][NextAgg]_vars

----------------------------------------------------------------------------
(* What the specification says, in its own terms *)

Range(seq) == {seq[i] : i \in 1..Len(seq)}

IsPrefix(a, b) == Len(a) <= Len(b) /\ SubSeq(b, 1, Len(a)) = a

\* The resolved date of t lies in month ym: the `date` field if it is present
\* and parses, otherwise the date part of `created_at` if that parses.
InMonth(t, ym) ==
    LET useDate == "date" \in DOMAIN t /\ FromIso(t.date).ok
        useCreated == ~useDate /\ "created_at" \in DOMAIN t /\ FromIso(t.created_at).ok
    IN  \/ useDate /\ <<FromIso(t.date).year, FromIso(t.date).month>> = ym
        \/ useCreated /\ <<FromIso(t.created_at).year, FromIso(t.created_at).month>> = ym

Selection(txs, ym) == SelectSeq(txs, LAMBDA t : InMonth(t, ym))

\* The sum of amount over the first n entries of txs that are of kind
RECURSIVE Total(_, _, _)
Total(txs, kind, n) ==
    IF n = 0 THEN 0
    ELSE Total(txs, kind, n - 1) + (IF txs[n].type = kind THEN txs[n].amount ELSE 0)

NumKind(txs, kind) == Cardinality({i \in 1..Len(txs) : txs[i].type = kind})

\* The confirmation is "YA" once trimmed, whatever the case of its letters
IsYa(raw) == Strip(raw) \in {<<"Y", "A">>, <<"Y", "a">>, <<"y", "A">>, <<"y", "a">>}

Corrupt(ex, bytes) == ex /\ ~json_load(bytes).ok

MenuOps == {"menu1", "menu2", "menu3", "menu4", "menu5", "menu0", "menu?"}

AddOps == {"append", "menu1", "menu2"}

----------------------------------------------------------------------------
(* Claims *)

\* C1: after appends and clears, starting without a file, load() returns
\* exactly the entries appended since the last clear, in append order and with
\* every field as appended; after a clear it returns {"transactions": []}.
C1_RoundTrip ==
    (last.op = "load" /\ hist.valid) =>
        /\ last.raised = "none"
        /\ last.data = [transactions |-> hist.txs]

C1_Witness ==
    /\ last.op = "load"
    /\ hist.valid
    /\ Len(hist.txs) = 2
    /\ hist.txs[1] # hist.txs[2]
    /\ last.data.transactions = hist.txs

\* C2: summarize returns the sum of the month's Income amounts, the sum of the
\* month's Expense amounts and their difference as balance; the three entries
\* of March 2024 give 5000000, 1800000 and 3200000.
C2_Summary ==
    (last.op = "summarize" /\ last.raised = "none") =>
        LET m == Selection(hist.txs, last.ym)
        IN  /\ last.sum.income = Total(m, INCOME, Len(m))
            /\ last.sum.expense = Total(m, EXPENSE, Len(m))
            /\ last.sum.balance = last.sum.income - last.sum.expense
            /\ (hist.txs = <<GajiTx, SewaTx, MakanTx>> /\ last.ym = <<2024, 3>>) =>
                   /\ last.sum.income = 5000000
                   /\ last.sum.expense = 1800000
                   /\ last.sum.balance = 3200000

C2_Witness ==
    /\ last.op = "summarize"
    /\ last.raised = "none"
    /\ hist.txs = <<GajiTx, SewaTx, MakanTx>>
    /\ last.ym = <<2024, 3>>
    /\ last.sum.balance = 3200000

\* C3: transactions_for_month returns, in insertion order, exactly the entries
\* whose resolved date lies in the month; 2024-02-15 is absent from March 2024,
\* an entry without `date` created on 2024-05-10 is present in May 2024, an
\* entry neither of whose dates parses is in no month.
C3_Selection ==
    (last.op = "month" /\ last.raised = "none") =>
        /\ last.txs = Selection(hist.txs, last.ym)
        /\ last.ym = <<2024, 3>> => Feb15Tx \notin Range(last.txs)
        /\ (last.ym = <<2024, 5>> /\ NoDateTx \in Range(hist.txs)) => NoDateTx \in Range(last.txs)
        /\ BadDatesTx \notin Range(last.txs)

C3_Witness ==
    /\ last.op = "month"
    /\ last.ym = <<2024, 5>>
    /\ hist.txs = <<Feb15Tx, NoDateTx, BadDatesTx>>
    /\ last.txs = <<NoDateTx>>

\* C4: for a ledger built by the store's operations, the count of a summary
\* is the number of the month's Income entries plus that of its Expense
\* entries.
C4_Count ==
    (last.op \in {"summarize", "menu3"} /\ last.raised = "none" /\ hist.valid) =>
        LET m == Selection(hist.txs, last.ym)
        IN  last.sum.count = NumKind(m, INCOME) + NumKind(m, EXPENSE)

C4_Witness ==
    /\ last.op = "summarize"
    /\ last.raised = "none"
    /\ hist.valid
    /\ last.sum.count = 2
    /\ last.sum.income > 0
    /\ last.sum.expense > 0

\* C5: every entry of the persisted ledger has amount >= 0 (an append given a
\* negative amount is rejected).
C5_AmountsNonNegative ==
    \A t \in Range(Stored(fileExists, fileBytes)) : "amount" \in DOMAIN t => t.amount >= 0

\* C6: when the write of an append or of a clear fails, the file holds what it
\* held before the operation.
C6_FailedWriteKeepsFile ==
    [][last'.raised = "OSError" => (fileExists' = fileExists /\ fileBytes' = fileBytes)]_vars

\* C7: load() returns the empty ledger without an error when the file is
\* missing or does not parse, warns in the second case only, and leaves the
\* file as it was; the bytes of a corrupt file change only when an append or a
\* clear persists.
C7_Load ==
    [][/\ last'.op = "load" =>
              /\ fileExists' = fileExists /\ fileBytes' = fileBytes
              /\ last'.raised = "none"
              /\ (~fileExists \/ Corrupt(fileExists, fileBytes)) =>
                     /\ last'.data = EmptyLedger
                     /\ last'.warned = Corrupt(fileExists, fileBytes)
       /\ (Corrupt(fileExists, fileBytes) /\ fileBytes' # fileBytes) =>
              /\ last'.op \in AddOps \cup {"menu5"}
              /\ fileBytes' = json_dump([transactions |-> Stored(fileExists', fileBytes')])
      ]_vars

C7_Witness ==
    /\ last.op = "load"
    /\ Corrupt(fileExists, fileBytes)
    /\ last.warned
    /\ last.data = EmptyLedger

\* C8: whatever the file holds, load, append and summarize return to the
\* caller; the only error they raise is that of a failed write.
C8_OnlyPersistError ==
    last.op \in {"load", "append", "summarize"} => last.raised \in {"none", "OSError"}

\* C9: in the menu the ledger is replaced by the empty one only by option 5
\* with a confirmation that is "YA" once trimmed and case ignored; option 5
\* with another confirmation leaves the file unchanged, and no other option
\* removes a stored entry.
C9_Clear ==
    [][/\ (fileExists' /\ fileBytes' = json_dump(EmptyLedger) /\ fileBytes' # fileBytes) =>
              (last'.op = "menu5" /\ IsYa(last'.arg))
       /\ (last'.op = "menu5" /\ ~IsYa(last'.arg)) =>
              (fileExists' = fileExists /\ fileBytes' = fileBytes)
       /\ (last'.op = "menu5" /\ IsYa(last'.arg)) =>
              (fileExists' /\ fileBytes' = json_dump(EmptyLedger))
       /\ (last'.op \in MenuOps /\ ~(last'.op = "menu5" /\ IsYa(last'.arg))) =>
              IsPrefix(Stored(fileExists, fileBytes), Stored(fileExists', fileBytes'))
      ]_vars

C9_Witness ==
    /\ last.op = "menu5"
    /\ last.arg = <<" ", "y", "a", " ">>
    /\ fileBytes = json_dump(EmptyLedger)
    /\ hist = [valid |-> TRUE, txs |-> <<>>]
    /\ clock = 2

\* C10: an entry appended without a date of the caller's is stored with `date`
\* equal to the calendar date of its own `created_at`.
C10_DateIsCreationDate ==
    (last.op \in AddOps /\ last.raised = "none" /\ last.noDate) =>
        last.txn.date = SubSeq(last.txn.created_at, 1, 10)

====
